---- MODULE Spec2Model ----
(***************************************************************************)
(* Model of klcorcoran/implant-evidence.                                   *)
(*                                                                         *)
(*   src/harvester.py        builds evidence cards: searches two           *)
(*                           literature sources, de-duplicates and         *)
(*                           enriches the candidates, accumulates          *)
(*                           cards_rows / studies_rows, writes two CSVs.   *)
(*   src/push_to_airtable.py reads the two CSVs, de-duplicates them by     *)
(*                           business key, upserts them in batches and     *)
(*                           links studies to cards.                       *)
(*                                                                         *)
(* Three specifications share the module:                                  *)
(*   Spec        the harvester script                                      *)
(*   SpecSync    push_to_airtable.main against a record store              *)
(*   SpecDedupe  dedupe_by_key applied repeatedly to a row list            *)
(* The variables of the other programs stay at their idle values.          *)
(***************************************************************************)
EXTENDS Integers, Sequences, FiniteSets, TLC

VARIABLES
    \* ---- harvester.py ------------------------------------------------
    h_pc,           \* position of the script: "idle" | "oa" | "pm" | "card" | "done" | "crashed"
    seen,           \* harvester.py:78  set of dedupe keys
    studies_rows,   \* harvester.py:78  list of study rows
    cards_rows,     \* harvester.py:78  list of card rows
    cur,            \* arguments of the build_card call in progress
    oa,             \* build_card local: the review candidates
    pm,             \* build_card local: the primary candidates
    oa_pos,         \* position of the loop over oa (harvester.py:115)
    pm_pos,         \* position of the loop over pm (harvester.py:118)
    n_builds,       \* number of build_card calls started
    out_cards,      \* evidence_cards.csv   (<<"absent">> until written)
    out_studies,    \* evidence_studies.csv
    net_log,        \* history: enrichment / open-access requests sent, in order
    emitted,        \* history: for each study row, the candidate's DOI, link, title and build
    builds,         \* history: the arguments of each build_card call
    card_build,     \* history: for each card row, the build that appended it
    crash           \* history: the call whose exception ended the script ("" if none)

hvars == <<h_pc, seen, studies_rows, cards_rows, cur, oa, pm, oa_pos, pm_pos, n_builds,
           out_cards, out_studies, net_log, emitted, builds, card_build, crash>>

VARIABLES
    \* ---- push_to_airtable.py -----------------------------------------
    s_pc,           \* position of main: "start" | "upsert_cards" | "upsert_studies" |
                    \*   "list_cards" | "list_studies" | "link" | "done" |
                    \*   "aborted" (SystemExit(1)) | "crashed" (uncaught exception)
    csv_cards,      \* evidence_cards.csv as load_csv reads it
    csv_studies,    \* evidence_studies.csv as load_csv reads it
    cards,          \* main local (push_to_airtable.py:107)
    studies,        \* main local (push_to_airtable.py:108)
    batch,          \* number of the next chunk of the running upsert / batch_update
    cards_idx,      \* main local (push_to_airtable.py:118): card_id -> record id
    to_link,        \* main local (push_to_airtable.py:126)
    store_cards,    \* the Cards table of the destination store
    store_studies,  \* the Studies table of the destination store
    req_log,        \* history: requests and sleeps of the running process, in order
    run,            \* history: how many times main has been started
    prev_done       \* history: the previous run of main ended at "done"

svars == <<s_pc, csv_cards, csv_studies, cards, studies, batch, cards_idx, to_link,
           store_cards, store_studies, req_log, run, prev_done>>

VARIABLES
    \* ---- dedupe_by_key applied repeatedly ------------------------------
    d_in,           \* the row list given
    d_rows,         \* the row list
    d_prev,         \* the row list before the last application
    d_key,          \* the key column
    d_runs          \* number of applications so far

dvars == <<d_in, d_rows, d_prev, d_key, d_runs>>

vars == <<hvars, svars, dvars>>

----------------------------------------------------------------------------
(* Bounds *)

MaxBuilds == 2      \* build_card calls per run (the script makes 3)
MaxOA     == 2      \* candidates returned by one review search
MaxPM     == 1      \* identifiers returned by one PubMed search
MaxCsvCards   == 2  \* rows of evidence_cards.csv
MaxCsvStudies == 2  \* rows of evidence_studies.csv before the block of further studies
PadRows   == 10     \* size of the block of further, distinct studies a CSV may end with
MaxRuns   == 2      \* runs of main against the same store
MaxRows   == 3      \* rows given to dedupe_by_key
MaxDedupes == 2     \* applications of dedupe_by_key

----------------------------------------------------------------------------
(* Sequence helpers *)

SeqsUpTo(S, n) == UNION {[1..k -> S] : k \in 0..n}

Range(s) == {s[i] : i \in DOMAIN s}

----------------------------------------------------------------------------
(* External services, as the script sees them *)

\* What one HTTP exchange can do.
HttpOutcomes == {"ok", "transport_error", "http_error", "malformed"}

\* safe_get's failure value (Python's None).
None == [delivered |-> FALSE, body |-> ""]

\* harvester.py:7-14.  requests.get / raise_for_status inside try: a transport
\* error and a non-success status give None; every delivered 2xx response is
\* returned as it is, whatever its body.
safe_get(outcome) ==
    IF outcome \in {"transport_error", "http_error"}
    THEN None
    ELSE [delivered |-> TRUE, body |-> IF outcome = "ok" THEN "json" ELSE "not_json"]

\* r.json() on a delivered response: raises on a body that is not JSON.
JsonRaises(r) == r.body # "json"

DoiPrefix == "https://doi.org/"

Dois == {"10.1/a"}

\* OpenAlex works as the API returns them: doi is a URL or null (""), id is the
\* OpenAlex URL of the work.
OAWorks ==
    { [title |-> "T1", doi |-> DoiPrefix \o "10.1/a", id |-> "https://openalex.org/W1"],
      [title |-> "T2", doi |-> DoiPrefix \o "10.1/a", id |-> "https://openalex.org/W2"],
      [title |-> "T3", doi |-> "",                    id |-> "https://openalex.org/W3"] }

\* PubMed esummary records by pmid: title and the DOI among articleids ("" if none).
Pmids == {"1", "2"}

PubmedDb(pid) ==
    IF pid = "1" THEN [title |-> "T1", doi |-> "10.1/a"]
                 ELSE [title |-> "T4", doi |-> ""]

\* harvester.py:50  (w.get("doi") or "").replace("https://doi.org/","")
StripDoiPrefix(s) ==
    IF \E d \in Dois : s = DoiPrefix \o d
    THEN CHOOSE d \in Dois : s = DoiPrefix \o d
    ELSE s

\* harvester.py:44-57  one normalized record per work, in the order returned.
openalex_reviews(works) ==
    [i \in DOMAIN works |->
        LET w   == works[i]
            doi == StripDoiPrefix(w.doi)
        IN [title |-> w.title,
            doi   |-> doi,
            link  |-> IF doi # "" THEN DoiPrefix \o doi ELSE w.id]]

\* harvester.py:22-42  one record per pmid, in the order given.
pubmed_summary(pmids) ==
    [i \in DOMAIN pmids |->
        LET rec == PubmedDb(pmids[i])
        IN [pmid  |-> pmids[i],
            title |-> rec.title,
            doi   |-> rec.doi,
            link  |-> "https://pubmed.ncbi.nlm.nih.gov/" \o pmids[i] \o "/"]]

\* Variant of crossref_enrich: the request is sent for an empty DOI too.
crossref_enrich_NoGuard(doi, outcome) ==
    LET r    == safe_get(outcome)
        sent == <<[api |-> "crossref", doi |-> doi]>>
    IN IF r = None
       THEN [raised |-> FALSE, funding |-> "", sent |-> sent]
       ELSE IF JsonRaises(r)
            THEN [raised |-> TRUE, funding |-> "", sent |-> sent]
            ELSE [raised |-> FALSE, funding |-> "Funder A", sent |-> sent]

\* harvester.py:59-66.  Result: whether the call raised, the value returned,
\* and the requests sent.
crossref_enrich(doi, outcome) ==
    IF doi = ""
    THEN [raised |-> FALSE, funding |-> "", sent |-> <<>>]
    ELSE LET r    == safe_get(outcome)
             sent == <<[api |-> "crossref", doi |-> doi]>>
         IN IF r = None
            THEN [raised |-> FALSE, funding |-> "", sent |-> sent]
            ELSE IF JsonRaises(r)
                 THEN [raised |-> TRUE, funding |-> "", sent |-> sent]
                 ELSE [raised |-> FALSE, funding |-> "Funder A", sent |-> sent]

\* harvester.py:68-74
unpaywall_pdf(doi, outcome) ==
    IF doi = ""
    THEN [raised |-> FALSE, url |-> "", sent |-> <<>>]
    ELSE LET r    == safe_get(outcome)
             sent == <<[api |-> "unpaywall", doi |-> doi]>>
         IN IF r = None
            THEN [raised |-> FALSE, url |-> "", sent |-> sent]
            ELSE IF JsonRaises(r)
                 THEN [raised |-> TRUE, url |-> "", sent |-> sent]
                 ELSE [raised |-> FALSE, url |-> "https://oa.example/" \o doi \o ".pdf",
                       sent |-> sent]

----------------------------------------------------------------------------
(* Rows *)

\* harvester.py:81
DedupeKey(doi, link, title) == <<doi, link, title>>

\* Variant of AlreadySeen: no key counts as seen.
AlreadySeen_Never(s, key) == FALSE

\* harvester.py:82  key in seen
AlreadySeen(s, key) == key \in s

\* Variant of RowsAppend: the row is put in front of the list.
RowsAppend_Front(rows, row) == <<row>> \o rows

\* harvester.py:86, 122  list.append
RowsAppend(rows, row) == Append(rows, row)

\* Variant of SeenAdd: the key is not recorded.
SeenAdd_Forgotten(s, key) == s

\* harvester.py:83  seen.add(key)
SeenAdd(s, key) == s \cup {key}

\* Variant of StudyId: the link takes precedence over the DOI.
StudyId_LinkFirst(doi, link) == IF link # "" THEN "url:" \o link ELSE "doi:" \o doi

\* harvester.py:88
StudyId(doi, link) == IF doi # "" THEN "doi:" \o doi ELSE "url:" \o link

\* harvester.py:92
DoiOrLink(doi, link) == IF doi # "" THEN DoiPrefix \o doi ELSE link

\* harvester.py:86-106.  The columns that are always written blank (n,
\* follow_up_years, effect_*, ci_*, risk_of_bias_*), the constant source_api
\* and year, which is copied through, are left out.
StudyRow(card_id, study_type, title, doi, link, note, funding, pdf) ==
    [card_id     |-> card_id,
     study_id    |-> StudyId(doi, link),
     study_type  |-> study_type,
     title       |-> title,
     doi_or_link |-> DoiOrLink(doi, link),
     design      |-> study_type,
     funding     |-> funding,
     notes       |-> note,
     oa_pdf      |-> pdf]

\* harvester.py:122-135.  outcome, comparator, certainty, registry_*, the date
\* and tags are copied through and left out.
CardRow(cfg) ==
    [card_id     |-> cfg.card_id,
     entity_type |-> "feature",
     entity_name |-> cfg.feature_name,
     bottom_line |-> cfg.bottom_line]

ReviewNote  == "SR/MA candidate (PRISMA/AMSTAR-2 to assess)."
PrimaryNote == "Candidate RCT/cohort; classify later (RoB 2 / ROBINS-I)."

\* The build_card argument lists a run may use: a complete one, one without
\* feature name, one without any search query.
Configs ==
    { [card_id |-> "card_x", feature_name |-> "Stemless", pubmed_query |-> "q1",
       openalex_query |-> "q1", bottom_line |-> "b1"],
      [card_id |-> "card_y", feature_name |-> "", pubmed_query |-> "q2",
       openalex_query |-> "q2", bottom_line |-> "b2"],
      [card_id |-> "card_x", feature_name |-> "Metal-backed", pubmed_query |-> "",
       openalex_query |-> "", bottom_line |-> "b3"] }

NoConfig == [card_id |-> "", feature_name |-> "", pubmed_query |-> "",
             openalex_query |-> "", bottom_line |-> ""]

Absent == <<"absent">>

----------------------------------------------------------------------------
(* harvester.py *)

\* harvester.py:78 and the history, before the first build_card call.
HarvestEmpty ==
    /\ seen = {}
    /\ studies_rows = <<>>
    /\ cards_rows = <<>>
    /\ cur = NoConfig
    /\ oa = <<>>
    /\ pm = <<>>
    /\ oa_pos = 1
    /\ pm_pos = 1
    /\ n_builds = 0
    /\ out_cards = Absent
    /\ out_studies = Absent
    /\ net_log = <<>>
    /\ emitted = <<>>
    /\ builds = <<>>
    /\ card_build = <<>>
    /\ crash = ""

InitHarvest == h_pc = "idle" /\ HarvestEmpty

IdleHarvest == h_pc = "off" /\ HarvestEmpty

\* harvester.py:80-106.  add_row as a step of the script: next values of the
\* row state for one candidate; `next_pc` is where build_card continues when
\* add_row returns.
add_row(card_id, study_type, title, doi, link, note, next_pc) ==
    LET key == DedupeKey(doi, link, title) IN
    IF AlreadySeen(seen, key)
    THEN /\ h_pc' = next_pc
         /\ UNCHANGED <<seen, studies_rows, net_log, emitted, crash>>
    ELSE \E o1 \in HttpOutcomes, o2 \in HttpOutcomes :
            LET enrich == crossref_enrich(doi, o1)
                pdf    == IF doi # "" THEN unpaywall_pdf(doi, o2)
                          ELSE [raised |-> FALSE, url |-> "", sent |-> <<>>]
            IN /\ seen' = SeenAdd(seen, key)
               /\ IF enrich.raised
                  THEN /\ h_pc' = "crashed"
                       /\ crash' = "crossref_enrich"
                       /\ net_log' = net_log \o enrich.sent
                       /\ UNCHANGED <<studies_rows, emitted>>
                  ELSE IF pdf.raised
                  THEN /\ h_pc' = "crashed"
                       /\ crash' = "unpaywall_pdf"
                       /\ net_log' = net_log \o enrich.sent \o pdf.sent
                       /\ UNCHANGED <<studies_rows, emitted>>
                  ELSE /\ h_pc' = next_pc
                       /\ crash' = crash
                       /\ net_log' = net_log \o enrich.sent \o pdf.sent
                       /\ studies_rows' = RowsAppend(studies_rows,
                              StudyRow(card_id, study_type, title, doi, link, note,
                                       enrich.funding, pdf.url))
                       /\ emitted' = Append(emitted,
                              [doi |-> doi, link |-> link,
                               title |-> title, build |-> n_builds])

\* harvester.py:108-113.  build_card is entered and the three searches run.
\* A search whose request fails returns the empty list; a delivered response
\* that is not JSON makes r.json() raise.
BuildCardSearch ==
    /\ h_pc = "idle"
    /\ n_builds < MaxBuilds
    /\ \E cfg \in Configs :
          /\ cur' = cfg
          /\ n_builds' = n_builds + 1
          /\ builds' = Append(builds, cfg)
          /\ \/ \E pmids \in SeqsUpTo(Pmids, MaxPM), works \in SeqsUpTo(OAWorks, MaxOA) :
                   /\ pm' = pubmed_summary(pmids)
                   /\ oa' = openalex_reviews(works)
                   /\ h_pc' = "oa"
                   /\ crash' = crash
             \/ /\ h_pc' = "crashed"
                /\ crash' = "search"
                /\ UNCHANGED <<oa, pm>>
    /\ oa_pos' = 1
    /\ pm_pos' = 1
    /\ UNCHANGED <<seen, studies_rows, cards_rows, out_cards, out_studies,
                   net_log, emitted, card_build>>

\* harvester.py:115-117
BuildCardReview ==
    /\ h_pc = "oa"
    /\ IF oa_pos > Len(oa)
       THEN /\ h_pc' = "pm"
            /\ UNCHANGED <<seen, studies_rows, net_log, emitted, oa_pos, crash>>
       ELSE /\ add_row(cur.card_id, "systematic_review_or_meta_analysis",
                       oa[oa_pos].title, oa[oa_pos].doi, oa[oa_pos].link, ReviewNote, "oa")
            /\ oa_pos' = oa_pos + 1
    /\ UNCHANGED <<cards_rows, cur, oa, pm, pm_pos, n_builds, out_cards, out_studies,
                   builds, card_build>>

\* harvester.py:118-120
BuildCardPrimary ==
    /\ h_pc = "pm"
    /\ IF pm_pos > Len(pm)
       THEN /\ h_pc' = "card"
            /\ UNCHANGED <<seen, studies_rows, net_log, emitted, pm_pos, crash>>
       ELSE /\ add_row(cur.card_id, "primary_study",
                       pm[pm_pos].title, pm[pm_pos].doi, pm[pm_pos].link, PrimaryNote, "pm")
            /\ pm_pos' = pm_pos + 1
    /\ UNCHANGED <<cards_rows, cur, oa, pm, oa_pos, n_builds, out_cards, out_studies,
                   builds, card_build>>

\* harvester.py:122-135.  build_card returns: its locals are gone.
BuildCardAppend ==
    /\ h_pc = "card"
    /\ cards_rows' = RowsAppend(cards_rows, CardRow(cur))
    /\ card_build' = Append(card_build, n_builds)
    /\ h_pc' = "idle"
    /\ cur' = NoConfig
    /\ oa' = <<>>
    /\ pm' = <<>>
    /\ oa_pos' = 1
    /\ pm_pos' = 1
    /\ UNCHANGED <<seen, studies_rows, n_builds, out_cards,
                   out_studies, net_log, emitted, builds, crash>>

\* harvester.py:191-203.  Reached only after the script's build_card calls.
WriteCsv ==
    /\ h_pc = "idle"
    /\ n_builds >= 1
    /\ out_cards' = cards_rows
    /\ out_studies' = studies_rows
    /\ h_pc' = "done"
    /\ UNCHANGED <<seen, studies_rows, cards_rows, cur, oa, pm, oa_pos, pm_pos,
                   n_builds, net_log, emitted, builds, card_build, crash>>

----------------------------------------------------------------------------
(* push_to_airtable.py: helpers *)

\* CSV field values that are inspected character by character are sequences
\* of one-character strings.
IsSpace(c) == c = " "

RECURSIVE LStrip(_)
LStrip(str) ==
    IF str # <<>> /\ IsSpace(Head(str)) THEN LStrip(Tail(str)) ELSE str

RECURSIVE RStrip(_)
RStrip(str) ==
    IF str # <<>> /\ IsSpace(str[Len(str)])
    THEN RStrip(SubSeq(str, 1, Len(str) - 1))
    ELSE str

\* str.strip()
Strip(str) == RStrip(LStrip(str))

\* Variant of RowKey: the value is not trimmed.
RowKey_NoStrip(r, key) == IF key \in DOMAIN r THEN r[key] ELSE <<>>

\* push_to_airtable.py:49  (r.get(key) or "").strip()   A row that lacks the
\* column gives the empty key.
RowKey(r, key) == IF key \in DOMAIN r THEN Strip(r[key]) ELSE <<>>

\* Variant of DedupeStore: the first row of a key is kept.
DedupeStore_FirstWins(acc, r, key) ==
    LET k == RowKey(r, key) IN
    IF k = <<>> \/ \E i \in DOMAIN acc : acc[i].k = k
    THEN acc
    ELSE Append(acc, [k |-> k, r |-> r])

\* push_to_airtable.py:48-52.  One iteration of the loop over rows; `acc` is
\* the dict `seen` as the list of its items in insertion order.
DedupeStore(acc, r, key) ==
    LET k == RowKey(r, key) IN
    IF k = <<>>
    THEN acc
    ELSE IF \E i \in DOMAIN acc : acc[i].k = k
         THEN [i \in DOMAIN acc |-> IF acc[i].k = k THEN [k |-> k, r |-> r] ELSE acc[i]]
         ELSE Append(acc, [k |-> k, r |-> r])

RECURSIVE DedupeLoop(_, _, _)
DedupeLoop(rows, key, acc) ==
    IF rows = <<>>
    THEN acc
    ELSE DedupeLoop(Tail(rows), key, DedupeStore(acc, Head(rows), key))

\* Variant of dedupe_by_key: the rows are returned last key first.
dedupe_by_key_Reversed(rows, key) ==
    LET items == DedupeLoop(rows, key, <<>>)
    IN [i \in DOMAIN items |-> items[Len(items) + 1 - i].r]

\* push_to_airtable.py:45-53  list(seen.values())
dedupe_by_key(rows, key) ==
    LET items == DedupeLoop(rows, key, <<>>)
    IN [i \in DOMAIN items |-> items[i].r]

\* The characters of a card_id the harvester writes, as csv.DictReader
\* returns them: the csv module writes and reads such a text unchanged.
CsvText(str) ==
    IF str = "card_x" THEN <<"c", "a", "r", "d", "_", "x">>
    ELSE IF str = "card_y" THEN <<"c", "a", "r", "d", "_", "y">>
    ELSE <<>>

\* push_to_airtable.py:38-43 on evidence_cards.csv as harvester.py:191-194
\* wrote it: one row per card row, in order.
load_csv(rows) ==
    [i \in DOMAIN rows |->
        [card_id     |-> CsvText(rows[i].card_id),
         entity_type |-> rows[i].entity_type,
         entity_name |-> rows[i].entity_name,
         bottom_line |-> rows[i].bottom_line]]

\* push_to_airtable.py:28-36.  The chunks the generator yields, in order.
RECURSIVE BatchedLoop(_, _, _, _)
BatchedLoop(items, n, chunk, out) ==
    IF items = <<>>
    THEN IF chunk # <<>> THEN Append(out, chunk) ELSE out
    ELSE LET chunk2 == Append(chunk, Head(items))
         IN IF Len(chunk2) = n
            THEN BatchedLoop(Tail(items), n, <<>>, Append(out, chunk2))
            ELSE BatchedLoop(Tail(items), n, chunk2, out)

\* Variant of batched: a last chunk shorter than n is not yielded.
batched_DropTail(items, n) ==
    LET out == BatchedLoop(items, n, <<>>, <<>>)
    IN IF out # <<>> /\ Len(out[Len(out)]) < n
       THEN SubSeq(out, 1, Len(out) - 1)
       ELSE out

batched(items, n) == BatchedLoop(items, n, <<>>, <<>>)

BatchSize       == 10       \* push_to_airtable.py:58, 94
RetryBackoffMs  == 30000    \* push_to_airtable.py:65, 98   time.sleep(30)
PaceMs          == 350      \* push_to_airtable.py:69, 102  time.sleep(0.35)

\* Status codes the store answers a write with.
Statuses == {200, 429, 422}

\* Variant of RateLimited: no answer is retried.
RateLimited_Never(status) == FALSE

\* push_to_airtable.py:64, 97
RateLimited(status) == status = 429

\* Variant of Fatal: no answer ends the run.
Fatal_Never(status) == FALSE

\* Variant of Fatal: only server errors end the run.
Fatal_ServerOnly(status) == status >= 500

\* push_to_airtable.py:66, 99
Fatal(status) == status >= 300

----------------------------------------------------------------------------
(* The destination store *)

\* performUpsert on one record: update the record whose merge field equals
\* the row's, else create one with a fresh record id.
StoreUpsertOne(table, row, merge_field) ==
    IF \E i \in DOMAIN table : table[i].fields[merge_field] = row[merge_field]
    THEN [i \in DOMAIN table |->
            IF table[i].fields[merge_field] = row[merge_field]
            THEN [table[i] EXCEPT !.fields = row]
            ELSE table[i]]
    ELSE Append(table, [id |-> Len(table) + 1, fields |-> row, Card |-> <<>>])

RECURSIVE StoreUpsert(_, _, _)
StoreUpsert(table, rows, merge_field) ==
    IF rows = <<>>
    THEN table
    ELSE StoreUpsert(StoreUpsertOne(table, Head(rows), merge_field), Tail(rows), merge_field)

\* Update-by-id of the link field.
StoreUpdate(table, recs) ==
    [i \in DOMAIN table |->
        IF \E j \in DOMAIN recs : recs[j].id = table[i].id
        THEN LET j == CHOOSE j \in DOMAIN recs : recs[j].id = table[i].id
             IN [table[i] EXCEPT !.Card = recs[j].Card]
        ELSE table[i]]

----------------------------------------------------------------------------
(* push_to_airtable.py: main *)

Digits == <<"0", "1", "2", "3", "4", "5", "6", "7", "8", "9">>

\* Card rows and study rows a CSV may hold.
CsvCardRows ==
    { [card_id |-> <<"a">>,      entity_name |-> "E1"],
      [card_id |-> <<" ", "a">>, entity_name |-> "E2"],
      [card_id |-> <<"b">>,      entity_name |-> "E1"],
      [card_id |-> <<>>,         entity_name |-> "E1"] }

CsvStudyRows ==
    { [study_id |-> <<"s">>, card_id |-> <<"a">>],
      [study_id |-> <<"t">>, card_id |-> <<"b", " ">>],
      [study_id |-> <<"t">>, card_id |-> <<"z">>],
      [study_id |-> <<"u">>, card_id |-> <<>>],
      [study_id |-> <<" ">>, card_id |-> <<"a">>] }

\* A block of n further studies of card "a", with distinct study ids.
PadStudies(n) ==
    [i \in 1..n |->
        [study_id |-> <<"f", Digits[(i \div 10) + 1], Digits[(i % 10) + 1]>>,
         card_id  |-> <<"a">>]]

InitSync ==
    /\ s_pc = "start"
    /\ csv_cards \in SeqsUpTo(CsvCardRows, MaxCsvCards)
    /\ \E seed \in SeqsUpTo(CsvStudyRows, MaxCsvStudies), n \in {0, PadRows} :
          csv_studies = seed \o PadStudies(n)
    /\ cards = <<>>
    /\ studies = <<>>
    /\ batch = 1
    /\ cards_idx = <<>>
    /\ to_link = <<>>
    /\ store_cards = <<>>
    /\ store_studies = <<>>
    /\ req_log = <<>>
    /\ run = 1
    /\ prev_done = FALSE

IdleSync ==
    /\ s_pc = "off"
    /\ csv_cards = <<>>
    /\ csv_studies = <<>>
    /\ cards = <<>>
    /\ studies = <<>>
    /\ batch = 1
    /\ cards_idx = <<>>
    /\ to_link = <<>>
    /\ store_cards = <<>>
    /\ store_studies = <<>>
    /\ req_log = <<>>
    /\ run = 0
    /\ prev_done = FALSE

\* One entry of the log: a request (merge is fieldsToMergeOn of an upsert
\* body, "" in every other request) or a sleep.
Request(op, table, merge_field, b, attempt, records, status) ==
    [op |-> op, table |-> table, merge |-> merge_field, batch |-> b, attempt |-> attempt,
     records |-> records, status |-> status, ms |-> 0]

Sleep(ms) ==
    [op |-> "sleep", table |-> "", merge |-> "", batch |-> 0, attempt |-> 0,
     records |-> <<>>, status |-> 0, ms |-> ms]

\* push_to_airtable.py:59-69 and 95-102.  One iteration of the loop over
\* chunks: the request, on a rate-limit answer the sleep and the one retry,
\* then the fatal check and the pacing sleep.  r1 and r2 are the store's
\* answers; the result is the final status and the entries of the log.
SendChunk(op, table, merge_field, b, records, r1, r2) ==
    LET first == <<Request(op, table, merge_field, b, 1, records, r1)>>
        again == IF RateLimited(r1)
                 THEN <<Sleep(RetryBackoffMs),
                        Request(op, table, merge_field, b, 2, records, r2)>>
                 ELSE <<>>
        final == IF RateLimited(r1) THEN r2 ELSE r1
    IN [status |-> final,
        fatal  |-> Fatal(final),
        log    |-> first \o again \o (IF Fatal(final) THEN <<>> ELSE <<Sleep(PaceMs)>>)]

\* push_to_airtable.py:107-108
MainLoad ==
    /\ s_pc = "start"
    /\ cards' = dedupe_by_key(csv_cards, "card_id")
    /\ studies' = dedupe_by_key(csv_studies, "study_id")
    /\ s_pc' = "upsert_cards"
    /\ batch' = 1
    /\ UNCHANGED <<csv_cards, csv_studies, cards_idx, to_link, store_cards,
                   store_studies, req_log, run, prev_done>>

\* push_to_airtable.py:55-69 for TABLE_CARDS (called at 112): one chunk, or
\* the return of upsert when the chunks are exhausted.
UpsertCards ==
    /\ s_pc = "upsert_cards"
    /\ LET chunks == batched(cards, BatchSize) IN
       IF batch > Len(chunks)
       THEN /\ s_pc' = "upsert_studies"
            /\ batch' = 1
            /\ UNCHANGED <<store_cards, req_log>>
       ELSE \E r1 \in Statuses, r2 \in Statuses :
               LET sent == SendChunk("upsert", "cards", "card_id", batch, chunks[batch], r1, r2)
               IN /\ req_log' = req_log \o sent.log
                  /\ IF sent.fatal
                     THEN /\ s_pc' = "aborted"
                          /\ UNCHANGED <<store_cards, batch>>
                     ELSE /\ store_cards' =
                                 IF sent.status = 200
                                 THEN StoreUpsert(store_cards, chunks[batch], "card_id")
                                 ELSE store_cards
                          /\ batch' = batch + 1
                          /\ s_pc' = s_pc
    /\ UNCHANGED <<csv_cards, csv_studies, cards, studies, cards_idx, to_link,
                   store_studies, run, prev_done>>

\* push_to_airtable.py:55-69 for TABLE_STUDIES (called at 113), then 114.
UpsertStudies ==
    /\ s_pc = "upsert_studies"
    /\ LET chunks == batched(studies, BatchSize) IN
       IF batch > Len(chunks)
       THEN /\ s_pc' = "list_cards"
            /\ batch' = 1
            /\ UNCHANGED <<store_studies, req_log>>
       ELSE \E r1 \in Statuses, r2 \in Statuses :
               LET sent == SendChunk("upsert", "studies", "study_id", batch, chunks[batch], r1, r2)
               IN /\ req_log' = req_log \o sent.log
                  /\ IF sent.fatal
                     THEN /\ s_pc' = "aborted"
                          /\ UNCHANGED <<store_studies, batch>>
                     ELSE /\ store_studies' =
                                 IF sent.status = 200
                                 THEN StoreUpsert(store_studies, chunks[batch], "study_id")
                                 ELSE store_studies
                          /\ batch' = batch + 1
                          /\ s_pc' = s_pc
    /\ UNCHANGED <<csv_cards, csv_studies, cards, studies, cards_idx, to_link,
                   store_cards, run, prev_done>>

\* The dict cards_idx as the list of its items in insertion order.
IdxHas(idx, k) == \E i \in DOMAIN idx : idx[i].k = k

IdxGet(idx, k) == idx[CHOOSE i \in DOMAIN idx : idx[i].k = k].id

\* Variant of IdxStore: the card_id is taken as it is, not trimmed.
IdxStore_NoStrip(idx, rec) ==
    LET cid == rec.fields.card_id IN
    IF cid = <<>>
    THEN idx
    ELSE IF IdxHas(idx, cid)
         THEN [i \in DOMAIN idx |-> IF idx[i].k = cid THEN [k |-> cid, id |-> rec.id] ELSE idx[i]]
         ELSE Append(idx, [k |-> cid, id |-> rec.id])

\* push_to_airtable.py:120-122  one iteration of the loop over the card records
IdxStore(idx, rec) ==
    LET cid == Strip(rec.fields.card_id) IN
    IF cid = <<>>
    THEN idx
    ELSE IF IdxHas(idx, cid)
         THEN [i \in DOMAIN idx |-> IF idx[i].k = cid THEN [k |-> cid, id |-> rec.id] ELSE idx[i]]
         ELSE Append(idx, [k |-> cid, id |-> rec.id])

RECURSIVE IdxLoop(_, _)
IdxLoop(recs, idx) ==
    IF recs = <<>> THEN idx ELSE IdxLoop(Tail(recs), IdxStore(idx, Head(recs)))

\* Variant of AlreadyLinked: the link field is not looked at.
AlreadyLinked_Ignored(rec) == FALSE

\* push_to_airtable.py:129  fields.get("Card")
AlreadyLinked(rec) == rec.Card # <<>>

\* push_to_airtable.py:128-134  one iteration of the loop over the study records
LinkStore(acc, rec, idx) ==
    LET cid == Strip(rec.fields.card_id) IN
    IF AlreadyLinked(rec)
    THEN acc
    ELSE IF cid = <<>> \/ ~IdxHas(idx, cid)
         THEN acc
         ELSE Append(acc, [id |-> rec.id, Card |-> <<IdxGet(idx, cid)>>])

RECURSIVE LinkLoop(_, _, _)
LinkLoop(recs, idx, acc) ==
    IF recs = <<>> THEN acc ELSE LinkLoop(Tail(recs), idx, LinkStore(acc, Head(recs), idx))

\* push_to_airtable.py:118-122 with list_records (71-89).  The tables hold
\* fewer records than one page, so the listing is one request; a non-success
\* answer makes raise_for_status raise.
ListCards ==
    /\ s_pc = "list_cards"
    /\ \E ok \in BOOLEAN :
          /\ req_log' = Append(req_log,
                 Request("list", "cards", "", 1, 1, <<>>, IF ok THEN 200 ELSE 422))
          /\ IF ok
             THEN /\ cards_idx' = IdxLoop(store_cards, <<>>)
                  /\ s_pc' = "list_studies"
             ELSE /\ s_pc' = "crashed"
                  /\ UNCHANGED cards_idx
    /\ UNCHANGED <<csv_cards, csv_studies, cards, studies, batch, to_link,
                   store_cards, store_studies, run, prev_done>>

\* push_to_airtable.py:126-140 up to the call of batch_update.
ListStudies ==
    /\ s_pc = "list_studies"
    /\ \E ok \in BOOLEAN :
          /\ req_log' = Append(req_log,
                 Request("list", "studies", "", 1, 1, <<>>, IF ok THEN 200 ELSE 422))
          /\ IF ok
             THEN /\ to_link' = LinkLoop(store_studies, cards_idx, <<>>)
                  /\ s_pc' = IF to_link' # <<>> THEN "link" ELSE "done"
             ELSE /\ s_pc' = "crashed"
                  /\ UNCHANGED to_link
    /\ batch' = 1
    /\ UNCHANGED <<csv_cards, csv_studies, cards, studies, cards_idx,
                   store_cards, store_studies, run, prev_done>>

\* push_to_airtable.py:91-102 (called at 137), then 138.
LinkBatch ==
    /\ s_pc = "link"
    /\ LET chunks == batched(to_link, BatchSize) IN
       IF batch > Len(chunks)
       THEN /\ s_pc' = "done"
            /\ UNCHANGED <<store_studies, req_log, batch>>
       ELSE \E r1 \in Statuses, r2 \in Statuses :
               LET sent == SendChunk("update", "studies", "", batch, chunks[batch], r1, r2)
               IN /\ req_log' = req_log \o sent.log
                  /\ IF sent.fatal
                     THEN /\ s_pc' = "aborted"
                          /\ UNCHANGED <<store_studies, batch>>
                     ELSE /\ store_studies' =
                                 IF sent.status = 200
                                 THEN StoreUpdate(store_studies, chunks[batch])
                                 ELSE store_studies
                          /\ batch' = batch + 1
                          /\ s_pc' = s_pc
    /\ UNCHANGED <<csv_cards, csv_studies, cards, studies, cards_idx, to_link,
                   store_cards, run, prev_done>>

\* The script is started again on the same CSV files against the same store.
Rerun ==
    /\ s_pc \in {"done", "aborted", "crashed"}
    /\ run < MaxRuns
    /\ run' = run + 1
    /\ prev_done' = (s_pc = "done")
    /\ s_pc' = "start"
    /\ cards' = <<>>
    /\ studies' = <<>>
    /\ batch' = 1
    /\ cards_idx' = <<>>
    /\ to_link' = <<>>
    /\ req_log' = <<>>
    /\ UNCHANGED <<csv_cards, csv_studies, store_cards, store_studies>>

----------------------------------------------------------------------------
(* dedupe_by_key applied repeatedly *)

\* Rows with both key columns, and rows that lack one of them.
DedupeRows ==
    [card_id : {<<"a">>, <<" ", "a">>, <<"b">>, <<>>},
     study_id : {<<"s">>, <<"s", " ">>, <<"t">>, <<" ">>}]
    \cup {[card_id |-> <<"a">>], [study_id |-> <<"s">>]}

InitDedupe ==
    /\ d_in \in SeqsUpTo(DedupeRows, MaxRows)
    /\ d_rows = d_in
    /\ d_prev = d_in
    /\ d_key \in {"card_id", "study_id"}
    /\ d_runs = 0

IdleDedupe ==
    /\ d_in = <<>>
    /\ d_rows = <<>>
    /\ d_prev = <<>>
    /\ d_key = ""
    /\ d_runs = 0

\* rows = dedupe_by_key(rows, key)
ApplyDedupe ==
    /\ d_runs < MaxDedupes
    /\ d_prev' = d_rows
    /\ d_rows' = dedupe_by_key(d_rows, d_key)
    /\ d_runs' = d_runs + 1
    /\ UNCHANGED <<d_in, d_key>>

----------------------------------------------------------------------------
(* Specifications *)

\* The harvester script.
Init == InitHarvest /\ IdleSync /\ IdleDedupe

Next ==
    \/ BuildCardSearch /\ UNCHANGED <<svars, dvars>>
    \/ BuildCardReview /\ UNCHANGED <<svars, dvars>>
    \/ BuildCardPrimary /\ UNCHANGED <<svars, dvars>>
    \/ BuildCardAppend /\ UNCHANGED <<svars, dvars>>
    \/ WriteCsv /\ UNCHANGED <<svars, dvars>>

Spec == Init /\ [][Next]_vars

\* push_to_airtable.py, run up to MaxRuns times against one store.
SyncInit == IdleHarvest /\ InitSync /\ IdleDedupe

SyncNext ==
    \/ MainLoad /\ UNCHANGED <<hvars, dvars>>
    \/ UpsertCards /\ UNCHANGED <<hvars, dvars>>
    \/ UpsertStudies /\ UNCHANGED <<hvars, dvars>>
    \/ ListCards /\ UNCHANGED <<hvars, dvars>>
    \/ ListStudies /\ UNCHANGED <<hvars, dvars>>
    \/ LinkBatch /\ UNCHANGED <<hvars, dvars>>
    \/ Rerun /\ UNCHANGED <<hvars, dvars>>

SpecSync == SyncInit /\ [][SyncNext]_vars

\* dedupe_by_key applied up to MaxDedupes times to a row list.
DedupeInit == IdleHarvest /\ IdleSync /\ InitDedupe

DedupeNext == ApplyDedupe /\ UNCHANGED <<hvars, svars>>

SpecDedupe == DedupeInit /\ [][DedupeNext]_vars

----------------------------------------------------------------------------
(* Properties of harvester.py *)

ReviewType  == "systematic_review_or_meta_analysis"
PrimaryType == "primary_study"

\* The study rows (positions in studies_rows) emitted by build b.
RowsOfBuild(b) == {i \in DOMAIN emitted : emitted[i].build = b}

\* The dedupe key of the candidate a study row was emitted for.
KeyOfRow(i) == <<emitted[i].doi, emitted[i].link, emitted[i].title>>

\* The running build has passed every candidate of both searches to add_row
\* and is about to append its card row.
BuildLoopsDone == h_pc = "card"

\* In the running build the review search and the PubMed search both returned
\* DOI d, under different links.
SharedDoi(d) ==
    /\ d # ""
    /\ \E r \in Range(oa), p \in Range(pm) :
          r.doi = d /\ p.doi = d /\ r.link # p.link

\* C1: when the review search and the general search of one build return the
\* same DOI under different links, the build emits exactly one study row for
\* that DOI, with study_id "doi:<doi>" and the review study type.
C1_OneRowPerSharedDoi ==
    \A d \in Dois :
        (BuildLoopsDone /\ n_builds = 1 /\ SharedDoi(d)) =>
            LET rows == {i \in RowsOfBuild(1) : emitted[i].doi = d}
            IN /\ Cardinality(rows) = 1
               /\ \A i \in rows : /\ studies_rows[i].study_id = "doi:" \o d
                                  /\ studies_rows[i].study_type = ReviewType

\* C2: the study rows emitted during one card build never contain two rows
\* with the same dedupe key (DOI, link, title).
C2_NoDuplicateKeyInBuild ==
    /\ Len(emitted) = Len(studies_rows)
    /\ \A i, j \in DOMAIN emitted :
          (i # j /\ emitted[i].build = emitted[j].build) => KeyOfRow(i) # KeyOfRow(j)

\* A build whose review search returned the same candidate twice has finished
\* its loops and emitted it once.
C2_Witness ==
    /\ BuildLoopsDone
    /\ Len(oa) = 2
    /\ oa[1] = oa[2]
    /\ Cardinality(RowsOfBuild(n_builds)) = 1

\* A configuration that lacks the feature name or every search query.
InvalidConfig(cfg) ==
    \/ cfg.feature_name = ""
    \/ cfg.pubmed_query = "" /\ cfg.openalex_query = ""

\* C6: a build_card call whose configuration lacks the feature name or all
\* search queries contributes no card row and no study row.
C6_InvalidConfigContributesNothing ==
    \A b \in DOMAIN builds :
        InvalidConfig(builds[b]) =>
            /\ RowsOfBuild(b) = {}
            /\ \A k \in DOMAIN card_build : card_build[k] # b

\* C7: no outcome of the enrichment or open-access request makes
\* crossref_enrich or unpaywall_pdf raise: the script never ends in an
\* exception that left one of them.
C7_LookupsNeverRaise ==
    crash \notin {"crossref_enrich", "unpaywall_pdf"}

\* C8: the study identifier of every emitted row is "doi:<doi>" when the
\* candidate's DOI is non-empty, whatever its link, and "url:<link>" otherwise;
\* rows built from the same (DOI, link) pair carry the same identifier.
C8_StudyIdFromDoiThenLink ==
    /\ \A i \in DOMAIN emitted :
          studies_rows[i].study_id =
              IF emitted[i].doi # "" THEN "doi:" \o emitted[i].doi
                                     ELSE "url:" \o emitted[i].link
    /\ \A i, j \in DOMAIN emitted :
          (emitted[i].doi = emitted[j].doi /\ emitted[i].link = emitted[j].link)
              => studies_rows[i].study_id = studies_rows[j].study_id

\* Rows of both kinds have been emitted: one whose candidate had a DOI and a
\* link, one whose candidate had a link only; and two rows share a (DOI, link).
C8_Witness ==
    /\ \E i \in DOMAIN emitted : emitted[i].doi # "" /\ emitted[i].link # ""
    /\ \E i \in DOMAIN emitted : emitted[i].doi = "" /\ emitted[i].link # ""
    /\ \E i, j \in DOMAIN emitted :
          i # j /\ emitted[i].doi = emitted[j].doi /\ emitted[i].link = emitted[j].link

\* The candidate the next add_row call of the running build receives.
NextCandidate == IF h_pc = "oa" THEN oa[oa_pos] ELSE pm[pm_pos]

AddRowPending ==
    \/ h_pc = "oa" /\ oa_pos <= Len(oa)
    \/ h_pc = "pm" /\ pm_pos <= Len(pm)

\* C9: add_row, given a candidate with an empty DOI whose key is new, appends
\* a row with study_id "url:<link>" and sends no enrichment and no open-access
\* request; a step sends requests only for a candidate with a non-empty DOI.
C9_NoLookupWithoutDoi ==
    [][ /\ (AddRowPending /\ NextCandidate.doi = ""
              /\ DedupeKey("", NextCandidate.link, NextCandidate.title) \notin seen)
           => /\ Len(studies_rows') = Len(studies_rows) + 1
              /\ studies_rows'[Len(studies_rows')].study_id = "url:" \o NextCandidate.link
              /\ net_log' = net_log
        /\ net_log' # net_log => (AddRowPending /\ NextCandidate.doi # "")
      ]_vars

\* A row for a candidate without DOI was emitted after a row with DOI: the
\* only requests sent are the two for the row with DOI.
C9_Witness ==
    /\ Len(emitted) = 2
    /\ emitted[1].doi # ""
    /\ emitted[2].doi = ""
    /\ studies_rows[2].study_id = "url:" \o emitted[2].link
    /\ Len(net_log) = 2

\* The dedupe key add_row computes for a candidate.
CandKey(r) == DedupeKey(r.doi, r.link, r.title)

\* The dedupe keys of the study rows emitted by build b.
KeysOfBuild(b) == {KeyOfRow(i) : i \in RowsOfBuild(b)}

\* C11: dedupe is scoped to one card build: when a build has passed all its
\* candidates to add_row, every candidate it received has a study row emitted
\* by that build, also when a row with the same (DOI, link, title) key was
\* emitted by an earlier build.
C11_DedupeScopedToBuild ==
    BuildLoopsDone =>
        /\ \A i \in DOMAIN oa : CandKey(oa[i]) \in KeysOfBuild(n_builds)
        /\ \A i \in DOMAIN pm : CandKey(pm[i]) \in KeysOfBuild(n_builds)

\* A candidate with the study type build_card passes to add_row for it.
Tagged(r, study_type) ==
    [title |-> r.title, doi |-> r.doi, link |-> r.link, study_type |-> study_type]

\* The candidates the running build has passed to add_row so far, in the
\* order of the calls.
Processed ==
    [i \in 1..(oa_pos - 1) |-> Tagged(oa[i], ReviewType)]
        \o [i \in 1..(pm_pos - 1) |-> Tagged(pm[i], PrimaryType)]

\* The candidates of a list whose key is not in `taken` and not the key of an
\* earlier candidate of the list.
RECURSIVE Accepted(_, _)
Accepted(cands, taken) ==
    IF cands = <<>>
    THEN <<>>
    ELSE IF CandKey(Head(cands)) \in taken
         THEN Accepted(Tail(cands), taken)
         ELSE <<Head(cands)>> \o Accepted(Tail(cands), taken \cup {CandKey(Head(cands))})

\* The keys of the rows emitted before the running build.
EarlierKeys == {KeyOfRow(i) : i \in {j \in DOMAIN emitted : emitted[j].build < n_builds}}

\* C15: the study rows of a build are the accepted candidates in the order
\* the searches returned them, the review candidates (typed
\* systematic_review_or_meta_analysis) before the PubMed candidates (typed
\* primary_study); in studies_rows no primary_study row of a build precedes
\* a review row of the same build.
C15_RowsInSourceOrder ==
    /\ h_pc \in {"oa", "pm", "card"} =>
          LET exp   == Accepted(Processed, EarlierKeys)
              first == Len(studies_rows) - Len(exp)
          IN /\ Cardinality(RowsOfBuild(n_builds)) = Len(exp)
             /\ RowsOfBuild(n_builds) = (first + 1)..Len(studies_rows)
             /\ \A n \in DOMAIN exp :
                   /\ studies_rows[first + n].title = exp[n].title
                   /\ studies_rows[first + n].study_type = exp[n].study_type
                   /\ studies_rows[first + n].doi_or_link
                         = DoiOrLink(exp[n].doi, exp[n].link)
                   /\ studies_rows[first + n].card_id = cur.card_id
    /\ \A i, j \in DOMAIN studies_rows :
          (i < j /\ emitted[i].build = emitted[j].build)
              => ~(studies_rows[i].study_type = PrimaryType
                     /\ studies_rows[j].study_type = ReviewType)

\* A build that received two different review candidates and a PubMed
\* candidate has emitted three rows.
C15_Witness ==
    /\ BuildLoopsDone
    /\ Len(oa) = 2
    /\ oa[1] # oa[2]
    /\ Len(pm) = 1
    /\ Cardinality(RowsOfBuild(n_builds)) = 3

\* C16: every step leaves the study rows emitted so far unchanged and in
\* place, and an add_row call for a candidate whose key is in seen changes
\* neither studies_rows nor seen and sends no request.
C16_StudiesRowsAppendOnly ==
    [][ /\ Len(studies_rows') >= Len(studies_rows)
        /\ SubSeq(studies_rows', 1, Len(studies_rows)) = studies_rows
        /\ (AddRowPending /\ CandKey(NextCandidate) \in seen)
              => /\ studies_rows' = studies_rows
                 /\ seen' = seen
                 /\ net_log' = net_log
                 /\ crash' = crash
      ]_vars

\* The second build emitted a row after the first build's row and then was
\* given the same review candidate again.
C16_Witness ==
    /\ n_builds = 2
    /\ h_pc = "pm"
    /\ Len(oa) = 2
    /\ oa[1] = oa[2]
    /\ Len(studies_rows) = 2
    /\ Cardinality(RowsOfBuild(2)) = 1

\* push_to_airtable.py:107 on the file the harvester wrote: the card rows
\* main passes to upsert.
Transmitted == dedupe_by_key(load_csv(out_cards), "card_id")

\* The last build_card call that was given the card_id of call b.
LastBuildOf(b) ==
    CHOOSE k \in DOMAIN builds :
        /\ builds[k].card_id = builds[b].card_id
        /\ \A j \in DOMAIN builds : builds[j].card_id = builds[b].card_id => j <= k

\* C17: every build_card call that returns has appended exactly one card
\* row; when the CSV files are written, the card rows main passes to upsert
\* after dedupe_by_key hold, for every card_id built, exactly one row, and
\* it is the row of the last build of that card_id.
C17_OneCardRowPerIdLastBuild ==
    /\ h_pc \in {"idle", "done"} =>
          /\ Len(cards_rows) = n_builds
          /\ \A k \in DOMAIN card_build : card_build[k] = k
    /\ h_pc \in {"oa", "pm", "card"} => Len(cards_rows) = n_builds - 1
    /\ h_pc = "done" =>
          \A b \in DOMAIN builds :
              LET sent == Transmitted
                  hits == {j \in DOMAIN sent : sent[j].card_id = CsvText(builds[b].card_id)}
              IN /\ Cardinality(hits) = 1
                 /\ \A j \in hits :
                       /\ sent[j] = load_csv(cards_rows)[LastBuildOf(b)]
                       /\ sent[j].entity_name = builds[LastBuildOf(b)].feature_name
                       /\ sent[j].bottom_line = builds[LastBuildOf(b)].bottom_line

\* The same card_id was built twice with different arguments, and the one
\* card row passed to upsert is that of the second build.
C17_Witness ==
    /\ h_pc = "done"
    /\ n_builds = 2
    /\ builds[1].card_id = builds[2].card_id
    /\ builds[1].feature_name # builds[2].feature_name
    /\ Len(Transmitted) = 1
    /\ Transmitted[1].entity_name = builds[2].feature_name

----------------------------------------------------------------------------
(* Properties of push_to_airtable.py *)

\* The requests of the log that update link fields.
LinkUpdates == {i \in DOMAIN req_log : req_log[i].op = "update"}

StudyRecord(id) == store_studies[CHOOSE i \in DOMAIN store_studies : store_studies[i].id = id]

\* The items of to_link that batch_update has not sent yet.
PendingLinks ==
    IF s_pc = "link"
    THEN {j \in DOMAIN to_link : j > (batch - 1) * BatchSize}
    ELSE {}

\* C3: when main has run to completion once and runs again on the same
\* input, the second run finds nothing to link and sends no link update; and
\* no record whose Card field is populated is ever put into an update.
C3_SecondLinkRunWritesNothing ==
    /\ (run >= 2 /\ prev_done) => (to_link = <<>> /\ LinkUpdates = {})
    /\ \A j \in PendingLinks : StudyRecord(to_link[j].id).Card = <<>>

\* The second run after a completed first run has listed the studies and
\* ended, the store holding a study that the first run linked.
C3_Witness ==
    /\ run = 2
    /\ prev_done
    /\ s_pc = "done"
    /\ \E i \in DOMAIN req_log : req_log[i].op = "list" /\ req_log[i].table = "studies"
    /\ \E i \in DOMAIN store_studies : store_studies[i].Card # <<>>
    /\ \E i \in DOMAIN store_studies : store_studies[i].Card = <<>>

\* The number of chunks upsert sends for a table.
NumChunks(table) ==
    Len(batched(IF table = "cards" THEN cards ELSE studies, BatchSize))

\* C4: an upsert request answered 429 is followed by the backoff sleep and
\* one more request for the same chunk; when that one succeeds, the pacing
\* sleep follows, main is not ended, and the next request, if any, is the
\* first for the next chunk of the table or, after its last chunk, for the
\* next phase of main.
C4_RetryOnceThenContinue ==
    \A i \in DOMAIN req_log :
        (req_log[i].op = "upsert" /\ req_log[i].attempt = 1 /\ req_log[i].status = 429) =>
            /\ i + 2 <= Len(req_log)
            /\ req_log[i + 1] = Sleep(RetryBackoffMs)
            /\ req_log[i + 2] = [req_log[i] EXCEPT !.attempt = 2,
                                                  !.status = req_log[i + 2].status]
            /\ req_log[i + 2].status = 200 =>
                  /\ i + 3 <= Len(req_log)
                  /\ req_log[i + 3] = Sleep(PaceMs)
                  /\ i + 3 = Len(req_log) => s_pc \notin {"aborted", "crashed"}
                  /\ i + 4 <= Len(req_log) =>
                        /\ req_log[i + 4].attempt = 1
                        /\ IF req_log[i].batch < NumChunks(req_log[i].table)
                           THEN /\ req_log[i + 4].op = "upsert"
                                /\ req_log[i + 4].table = req_log[i].table
                                /\ req_log[i + 4].batch = req_log[i].batch + 1
                           ELSE \/ /\ req_log[i + 4].op = "upsert"
                                   /\ req_log[i].table = "cards"
                                   /\ req_log[i + 4].table = "studies"
                                   /\ req_log[i + 4].batch = 1
                                \/ /\ req_log[i + 4].op = "list"
                                   /\ req_log[i + 4].table = "cards"

\* The first chunk of the studies was answered 429, then 200 on the retry,
\* and the second chunk has been sent.
C4_Witness ==
    \E i \in DOMAIN req_log :
        /\ req_log[i].op = "upsert" /\ req_log[i].table = "studies"
        /\ req_log[i].batch = 1 /\ req_log[i].attempt = 1 /\ req_log[i].status = 429
        /\ i + 4 <= Len(req_log)
        /\ req_log[i + 2].status = 200
        /\ req_log[i + 4].table = "studies" /\ req_log[i + 4].batch = 2

\* An upsert request whose answer ends the retrying: a non-success other than
\* 429, or any non-success to the retry.
FinalFailure(e) ==
    /\ e.op = "upsert"
    /\ e.status >= 300
    /\ e.status # 429 \/ e.attempt = 2

\* C5: upsert sends a chunk at most twice; a non-success answer other than a
\* first 429 ends main with SystemExit and is the last request of the run;
\* the store then holds what the chunks before it wrote and nothing else.
C5_FatalStopsEverything ==
    /\ \A i \in DOMAIN req_log :
          req_log[i].op = "upsert" =>
              /\ req_log[i].attempt \in {1, 2}
              /\ \A j \in DOMAIN req_log :
                    (j # i /\ req_log[j].op = "upsert"
                       /\ req_log[j].table = req_log[i].table
                       /\ req_log[j].batch = req_log[i].batch)
                    => req_log[j].attempt # req_log[i].attempt
    /\ \A i \in DOMAIN req_log :
          FinalFailure(req_log[i]) => (i = Len(req_log) /\ s_pc = "aborted")
    /\ (run = 1 /\ req_log # <<>> /\ FinalFailure(req_log[Len(req_log)])) =>
          LET e == req_log[Len(req_log)] IN
          IF e.table = "cards"
          THEN /\ Len(store_cards) = (e.batch - 1) * BatchSize
               /\ store_studies = <<>>
          ELSE /\ Len(store_cards) = Len(cards)
               /\ Len(store_studies) = (e.batch - 1) * BatchSize
               /\ \A k \in DOMAIN store_studies : store_studies[k].Card = <<>>

\* The retry of the second chunk of the studies was answered 429 again: main
\* is ended and the store holds the first chunk.
C5_Witness ==
    /\ s_pc = "aborted"
    /\ run = 1
    /\ req_log # <<>>
    /\ LET e == req_log[Len(req_log)]
       IN /\ e.op = "upsert" /\ e.table = "studies" /\ e.batch = 2
          /\ e.attempt = 2 /\ e.status = 429
    /\ Len(store_studies) = BatchSize

\* main has just listed the studies: the store is as the listing saw it.
JustListed ==
    /\ req_log # <<>>
    /\ LET e == req_log[Len(req_log)]
       IN e.op = "list" /\ e.table = "studies" /\ e.status = 200

\* The card records whose trimmed card_id is the trimmed card_id of a study record.
MatchingParents(rec) ==
    {p \in Range(store_cards) :
        /\ Strip(p.fields.card_id) # <<>>
        /\ Strip(p.fields.card_id) = Strip(rec.fields.card_id)}

\* A study record without link value whose card_id matches a card record.
NeedsLink(rec) == rec.Card = <<>> /\ MatchingParents(rec) # {}

\* C12: link resolution collects an update for exactly the study records that
\* have no Card value and whose trimmed card_id is that of a listed card
\* record, once each; an update holds the record id and the Card field only,
\* Card being the one-element list of the matching card's record id; every
\* update request carries a chunk of these updates, and all of them are sent
\* when main ends normally.
C12_LinksExactlyUnlinkedMatched ==
    /\ JustListed =>
          /\ {to_link[j].id : j \in DOMAIN to_link}
                = {rec.id : rec \in {r \in Range(store_studies) : NeedsLink(r)}}
          /\ \A j, k \in DOMAIN to_link : j # k => to_link[j].id # to_link[k].id
          /\ \A j \in DOMAIN to_link :
                /\ DOMAIN to_link[j] = {"id", "Card"}
                /\ Len(to_link[j].Card) = 1
                /\ \E p \in MatchingParents(StudyRecord(to_link[j].id)) :
                      to_link[j].Card[1] = p.id
    /\ \A i \in LinkUpdates :
          /\ req_log[i].batch \in DOMAIN batched(to_link, BatchSize)
          /\ req_log[i].records = batched(to_link, BatchSize)[req_log[i].batch]
    /\ s_pc = "done" =>
          \A b \in DOMAIN batched(to_link, BatchSize) :
              \E i \in LinkUpdates : req_log[i].batch = b

\* The listing found studies to link next to a study with an empty card_id
\* and a study whose card_id is no card's.
C12_Witness ==
    /\ JustListed
    /\ to_link # <<>>
    /\ \E r \in Range(store_studies) : r.Card = <<>> /\ Strip(r.fields.card_id) = <<>>
    /\ \E r \in Range(store_studies) :
          r.Card = <<>> /\ Strip(r.fields.card_id) # <<>> /\ MatchingParents(r) = {}

\* The rows main passes to upsert for a table, and the field it merges on.
RowsOf(table) == IF table = "cards" THEN cards ELSE studies

KeyOf(table) == IF table = "cards" THEN "card_id" ELSE "study_id"

IsFirstUpsertCards(e) == e.op = "upsert" /\ e.table = "cards" /\ e.attempt = 1

IsFirstUpsertStudies(e) == e.op = "upsert" /\ e.table = "studies" /\ e.attempt = 1

\* The first requests of the batches of a table, in the order sent.
FirstUpserts(table) ==
    IF table = "cards" THEN SelectSeq(req_log, IsFirstUpsertCards)
                       ELSE SelectSeq(req_log, IsFirstUpsertStudies)

\* upsert has returned for the table.
UpsertReturned(table) ==
    \/ s_pc \in {"list_cards", "list_studies", "link", "done", "crashed"}
    \/ s_pc = "upsert_studies" /\ table = "cards"
    \/ /\ s_pc = "aborted"
       /\ LET e == req_log[Len(req_log)]
          IN e.op = "update" \/ (e.table = "studies" /\ table = "cards")

Min(a, b) == IF a <= b THEN a ELSE b

\* C14: the n-th batch upsert sends for a table holds the rows
\* 10(n-1)+1 .. 10n of the table's row list in their order (fewer only in the
\* last batch, never none) and merges on the table's key field; when upsert
\* has returned, the batches cover every row.
C14_BatchesOfTenInOrder ==
    \A t \in {"cards", "studies"} :
        LET reqs == FirstUpserts(t)
            rows == RowsOf(t)
        IN /\ \A n \in DOMAIN reqs :
                 /\ reqs[n].batch = n
                 /\ reqs[n].records # <<>>
                 /\ Len(reqs[n].records) <= BatchSize
                 /\ n < Len(reqs) => Len(reqs[n].records) = BatchSize
                 /\ reqs[n].records = SubSeq(rows, BatchSize * (n - 1) + 1,
                                             Min(BatchSize * n, Len(rows)))
                 /\ reqs[n].merge = KeyOf(t)
           /\ UpsertReturned(t) => Len(rows) <= BatchSize * Len(reqs)

\* Twelve studies went out as a batch of ten and a batch of two, after the
\* one batch of cards.
C14_Witness ==
    /\ s_pc = "list_cards"
    /\ Len(studies) = BatchSize + 2
    /\ Len(FirstUpserts("studies")) = 2
    /\ Len(FirstUpserts("cards")) = 1

\* The requests of the log (its other entries are sleeps).
Requests == {i \in DOMAIN req_log : req_log[i].op # "sleep"}

\* The phase of main a request belongs to.
Phase(e) ==
    IF e.op = "upsert" THEN (IF e.table = "cards" THEN 1 ELSE 2)
    ELSE IF e.op = "list" THEN (IF e.table = "cards" THEN 3 ELSE 4)
    ELSE 5

\* The request that ends the sending of its chunk: the retry, or a first
\* request that was not answered 429.
LastOfChunk(e) == e.attempt = 2 \/ e.status # 429

\* Before position i of the log every chunk of the table was upserted and
\* its last answer was a success.
UpsertedBefore(table, i) ==
    \A b \in 1..NumChunks(table) :
        \E k \in Requests :
            /\ k < i
            /\ req_log[k].op = "upsert" /\ req_log[k].table = table /\ req_log[k].batch = b
            /\ LastOfChunk(req_log[k])
            /\ req_log[k].status < 300

\* C18: the requests of a run are sent one after another in phase order:
\* card upserts, study upserts, listing of cards, listing of studies, link
\* updates, the chunks of a phase in ascending order; a retry follows its
\* first request and the backoff sleep directly, before any other request;
\* a listing or link update is sent only after every chunk of both upserts
\* was sent and answered without a fatal status.
C18_SequentialPhaseOrder ==
    /\ \A i, j \in Requests :
          i < j =>
              /\ Phase(req_log[i]) <= Phase(req_log[j])
              /\ (Phase(req_log[i]) = Phase(req_log[j]) /\ req_log[i].op # "list") =>
                    /\ req_log[i].batch <= req_log[j].batch
                    /\ req_log[i].batch = req_log[j].batch =>
                          (j = i + 2 /\ req_log[i].attempt = 1 /\ req_log[j].attempt = 2)
    /\ \A i \in Requests :
          req_log[i].attempt = 2 =>
              /\ i >= 3
              /\ req_log[i - 1] = Sleep(RetryBackoffMs)
              /\ req_log[i - 2] = [req_log[i] EXCEPT !.attempt = 1, !.status = 429]
    /\ \A i \in Requests :
          req_log[i].op \in {"list", "update"} =>
              /\ UpsertedBefore("cards", i)
              /\ UpsertedBefore("studies", i)
              /\ \A k \in Requests :
                    (k < i /\ req_log[k].op = "upsert") => req_log[k].status \in {200, 429}
              /\ \A k \in Requests :
                    (k < i /\ req_log[k].op = "upsert" /\ LastOfChunk(req_log[k]))
                        => req_log[k].status < 300

\* A run ended normally after a retried upsert, two chunks of studies, both
\* listings and a link update.
C18_Witness ==
    /\ s_pc = "done"
    /\ LinkUpdates # {}
    /\ Len(FirstUpserts("cards")) = 1
    /\ Len(FirstUpserts("studies")) = 2
    /\ \E i \in Requests : req_log[i].op = "upsert" /\ req_log[i].attempt = 2

----------------------------------------------------------------------------
(* Properties of dedupe_by_key *)

\* C10: dedupe_by_key applied to its own result returns that result: the same
\* rows in the same order.
C10_DedupeIdempotent ==
    d_runs >= 2 => d_rows = d_prev

\* The second application has run on a list from which the first one removed
\* rows and which still holds two rows.
C10_Witness ==
    /\ d_runs = 2
    /\ Len(d_rows) = 2
    /\ Len(d_in) = 3

\* The trimmed key of a row in the column dedupe_by_key was given (empty when
\* the row lacks the column).
KeyText(r) == IF d_key \in DOMAIN r THEN Strip(r[d_key]) ELSE <<>>

\* The last row of a list that carries key k.
LastWith(rows, k) ==
    rows[CHOOSE i \in DOMAIN rows :
            /\ KeyText(rows[i]) = k
            /\ \A j \in DOMAIN rows : j > i => KeyText(rows[j]) # k]

\* C13: the result of dedupe_by_key holds exactly one row for every distinct
\* non-empty trimmed key of the input, namely the last input row with that
\* key, and no row whose key is missing, empty or blank.
C13_OneRowPerKeyLastWins ==
    d_runs >= 1 =>
        LET keys == {KeyText(d_prev[i]) : i \in DOMAIN d_prev} \ {<<>>}
        IN /\ Len(d_rows) = Cardinality(keys)
           /\ \A j \in DOMAIN d_rows : KeyText(d_rows[j]) \in keys
           /\ \A k \in keys : \E j \in DOMAIN d_rows : d_rows[j] = LastWith(d_prev, k)

\* dedupe_by_key was given a row without the key column and two different
\* rows with the same trimmed key, and returned the later of the two.
C13_Witness ==
    /\ d_runs = 1
    /\ Len(d_in) = 3
    /\ \E i \in DOMAIN d_in : d_key \notin DOMAIN d_in[i]
    /\ \E i, j \in DOMAIN d_in :
          /\ i < j
          /\ KeyText(d_in[i]) = KeyText(d_in[j])
          /\ d_in[i] # d_in[j]
          /\ d_rows = <<d_in[j]>>

====
